---- MODULE Spec2Model ----
(***************************************************************************)
(* hd-idle: a daemon that polls /proc/diskstats and sends a SCSI stop-unit *)
(* command to disks whose read/write counters have not changed for their   *)
(* idle time.  The module models src/hd-idle.c:                            *)
(*   - option processing and the idle-time list (main, lines 193-271),     *)
(*   - the poll loop and the per-disk state machine (main, lines 292-377), *)
(*   - spindown_disk, log_spinup, get_diskstats, is_scsi_disk, sighandler. *)
(* Two specifications share the variables: SpecOpts runs main from its     *)
(* first statement to the entry of the poll loop; Spec runs the poll loop  *)
(* from the state a command line of LoopConfigs leaves behind.             *)
(***************************************************************************)
EXTENDS Integers, Sequences, FiniteSets, TLC

VARIABLES
  pc,            \* position of main
  rc,            \* main's rc / the exit code once pc = "exited"
  argv,          \* the options getopt has returned so far
  it_root,       \* the idle_time_t list, head first
  it,            \* main's `it`: index into it_root of the open rule, 0 = NULL
  have_logfile,
  sleep_time,
  break_loop,    \* the flag sighandler sets
  clock,         \* what time(NULL) returns
  ds_root,       \* the disk_stats_t list, head first
  seen,          \* disks whose line fgets has returned from the open file
  cur,           \* tmp and now of the line log_spinup was called for
  fp_open,       \* the /proc/diskstats handle of this tick is open
  ev             \* what the last step did to the outside world

vars == <<pc, rc, argv, it_root, it, have_logfile, sleep_time, break_loop,
          clock, ds_root, seen, cur, fp_open, ev>>

----------------------------------------------------------------------------
(* Bounds of the model *)

MaxOpts == 4     \* options on a command line of SpecOpts
MaxTime == 3     \* the clock runs from 0 to MaxTime
MaxTickTime == 28   \* the same for SpecTicks, whose ticks are evenly spaced

(* Program constants *)

DEFAULT_IDLE_TIME == 600
INT_MAX == 2147483647
SCSI_DISK_MAJOR == 8
PARTITION_SLOTS == 16

NULL == "NULL"

----------------------------------------------------------------------------
(* The outside world *)

\* Disk names given to -a and -t.  None starts with '/'.
OptNames == {"sda", "sdb"}

\* What atoi(optarg) returns for the arguments given to -i.
IdleArgs == {-20, 0, 2, 3, 25}

\* Device names on the lines of /proc/diskstats: whole disks, which have at
\* most one line each in a snapshot, and other block devices.
DiskNames == {"sda", "sdb"}
OtherNames == {"sda1", "md0"}
LineNames == DiskNames \cup OtherNames

\* The read and write counters on these lines.  The program only tests
\* counters for equality: between two of these pairs the reads differ, the
\* writes differ, or both do.
CounterPairs == {<<0, 0>>, <<1, 0>>, <<0, 1>>}

\* st_rdev of /dev/<name> as stat() reports it: <<major, minor>>.
st_rdev(name) ==
  CASE name = "sda"  -> <<8, 0>>
    [] name = "sdb"  -> <<8, 16>>
    [] name = "sda1" -> <<8, 1>>
    [] name = "md0"  -> <<9, 0>>
    [] OTHER         -> <<0, 0>>

\* Outcomes of spindown_disk: open fails, ioctl fails, the SCSI status is
\* not 0, or the command succeeds.
SpindownResults == {"open_failed", "ioctl_failed", "bad_status", "ok"}

Ev(type, name, res, running, stopped) ==
  [type |-> type, name |-> name, res |-> res,
   running |-> running, stopped |-> stopped]

NoEv == Ev("none", NULL, "", 0, 0)

\* Line 316: the disk whose line is being looked at.
Probe(name) == Ev("probe", name, "", 0, 0)

----------------------------------------------------------------------------
(* The idle-time list *)

Rule(name, idle_time) == [name |-> name, idle_time |-> idle_time]

DefaultRule == Rule(NULL, DEFAULT_IDLE_TIME)

\* disk_name for a path that does not start with '/': the path itself.
disk_name(path) == path

\* case 'a' with the new rule linked in behind the named rules.
AddRule_Append(root, optarg) ==
  SubSeq(root, 1, Len(root) - 1)
    \o <<Rule(disk_name(optarg), DEFAULT_IDLE_TIME), root[Len(root)]>>

\* case 'a': a new rule with the default idle time, linked in at the head.
AddRule(root, optarg) == <<Rule(disk_name(optarg), DEFAULT_IDLE_TIME)>> \o root

\* case 'i' that always writes to the default rule.
SetIdle_Default(root, i, v) == [root EXCEPT ![Len(root)].idle_time = v]

\* case 'i': it->idle_time = atoi(optarg).
SetIdle(root, i, v) == [root EXCEPT ![i].idle_time = v]

\* The scan for the shortest nonzero idle time.
RECURSIVE MinIdleFrom(_, _, _)
MinIdleFrom(root, i, m) ==
  IF i > Len(root) THEN m
  ELSE MinIdleFrom(root, i + 1,
         IF root[i].idle_time # 0 /\ root[i].idle_time < m
         THEN root[i].idle_time ELSE m)

min_idle_time(root) == MinIdleFrom(root, 1, INT_MAX)

\* C's integer division truncates toward zero.
CDiv(a, b) == IF a >= 0 THEN a \div b ELSE -((-a) \div b)

SleepTime(root) ==
  LET s == CDiv(min_idle_time(root), 10) IN IF s = 0 THEN 1 ELSE s

\* The scan that gives a new disk its idle time: the first rule that is the
\* default or has the disk's name.  A disk that no rule matches keeps the 0
\* of memset.
RECURSIVE ResolveFrom(_, _, _)
ResolveFrom(root, i, name) ==
  IF i > Len(root) THEN 0
  ELSE IF root[i].name = NULL \/ name = root[i].name THEN root[i].idle_time
  ELSE ResolveFrom(root, i + 1, name)

\* The scan started at the second rule.
Resolve_FromSecond(root, name) == ResolveFrom(root, 2, name)

Resolve(root, name) == ResolveFrom(root, 1, name)

----------------------------------------------------------------------------
(* Option processing *)

Opt(o, name, val) == [opt |-> o, name |-> name, val |-> val]

NoCur == [name |-> NULL, reads |-> 0, writes |-> 0, now |-> 0]

InitOpts ==
  /\ pc = "start"
  /\ rc = 0
  /\ argv = <<>>
  /\ it_root = <<>>
  /\ it = 0
  /\ have_logfile = FALSE
  /\ sleep_time = 0
  /\ break_loop = FALSE
  /\ clock = 0
  /\ ds_root = <<>>
  /\ seen = {}
  /\ cur = NoCur
  /\ fp_open = FALSE
  /\ ev = NoEv

LoopVarsUnchanged == UNCHANGED <<break_loop, clock, ds_root, seen, cur, fp_open>>

\* Lines 193-202: the default rule.
CreateDefault ==
  /\ pc = "start"
  /\ it_root' = <<DefaultRule>>
  /\ it' = 1
  /\ pc' = "opts"
  /\ ev' = NoEv
  /\ UNCHANGED <<rc, argv, have_logfile, sleep_time>>
  /\ LoopVarsUnchanged

\* Lines 194-197: malloc fails, exit(1).
CreateDefaultOOM ==
  /\ pc = "start"
  /\ pc' = "exited"
  /\ rc' = 1
  /\ ev' = Ev("oom", NULL, "", 0, 0)
  /\ UNCHANGED <<argv, it_root, it, have_logfile, sleep_time>>
  /\ LoopVarsUnchanged

MoreOpts == pc = "opts" /\ Len(argv) < MaxOpts

\* case 't' without the _return(0): getopt is called again.
OptT_NoReturn ==
  /\ MoreOpts
  /\ \E n \in OptNames, res \in SpindownResults :
       /\ argv' = Append(argv, Opt("t", n, 0))
       /\ ev' = Ev("spindown", n, res, 0, 0)
  /\ UNCHANGED <<pc, rc, it_root, it, have_logfile, sleep_time>>
  /\ LoopVarsUnchanged

\* case 't': spindown_disk(optarg); _return(0).
OptT ==
  /\ MoreOpts
  /\ \E n \in OptNames, res \in SpindownResults :
       /\ argv' = Append(argv, Opt("t", n, 0))
       /\ ev' = Ev("spindown", n, res, 0, 0)
  /\ rc' = 0
  /\ pc' = "out"
  /\ UNCHANGED <<it_root, it, have_logfile, sleep_time>>
  /\ LoopVarsUnchanged

\* case 'a'.
OptA ==
  /\ MoreOpts
  /\ \E n \in OptNames :
       /\ argv' = Append(argv, Opt("a", n, 0))
       /\ it_root' = AddRule(it_root, n)
  /\ it' = 1
  /\ ev' = NoEv
  /\ UNCHANGED <<pc, rc, have_logfile, sleep_time>>
  /\ LoopVarsUnchanged

\* case 'a', malloc fails: _return(2).
OptAOOM ==
  /\ MoreOpts
  /\ \E n \in OptNames : argv' = Append(argv, Opt("a", n, 0))
  /\ it' = 0
  /\ rc' = 2
  /\ pc' = "out"
  /\ ev' = Ev("oom", NULL, "", 0, 0)
  /\ UNCHANGED <<it_root, have_logfile, sleep_time>>
  /\ LoopVarsUnchanged

\* case 'i'.
OptI ==
  /\ MoreOpts
  /\ \E v \in IdleArgs :
       /\ argv' = Append(argv, Opt("i", NULL, v))
       /\ it_root' = SetIdle(it_root, it, v)
  /\ ev' = NoEv
  /\ UNCHANGED <<pc, rc, it, have_logfile, sleep_time>>
  /\ LoopVarsUnchanged

\* case 'l'.
OptL ==
  /\ MoreOpts
  /\ argv' = Append(argv, Opt("l", NULL, 0))
  /\ have_logfile' = TRUE
  /\ ev' = NoEv
  /\ UNCHANGED <<pc, rc, it_root, it, sleep_time>>
  /\ LoopVarsUnchanged

\* case 'f' and case 'd': foreground and debug, which only decide whether
\* the process detaches and what it prints.
OptFD ==
  /\ MoreOpts
  /\ \E o \in {"f", "d"} : argv' = Append(argv, Opt(o, NULL, 0))
  /\ ev' = NoEv
  /\ UNCHANGED <<pc, rc, it_root, it, have_logfile, sleep_time>>
  /\ LoopVarsUnchanged

\* case 'h': usage, _return(0).
OptH ==
  /\ MoreOpts
  /\ argv' = Append(argv, Opt("h", NULL, 0))
  /\ rc' = 0
  /\ pc' = "out"
  /\ ev' = NoEv
  /\ UNCHANGED <<it_root, it, have_logfile, sleep_time>>
  /\ LoopVarsUnchanged

\* case ':' and case '?': _return(1).
OptBad ==
  /\ MoreOpts
  /\ \E o \in {":", "?"} : argv' = Append(argv, Opt(o, NULL, 0))
  /\ rc' = 1
  /\ pc' = "out"
  /\ ev' = NoEv
  /\ UNCHANGED <<it_root, it, have_logfile, sleep_time>>
  /\ LoopVarsUnchanged

\* getopt returns -1; lines 262-290: the sleep time, then the signal
\* handlers, then the loop.
Startup ==
  /\ pc = "opts"
  /\ sleep_time' = SleepTime(it_root)
  /\ pc' = "check1"
  /\ ev' = NoEv
  /\ UNCHANGED <<rc, argv, it_root, it, have_logfile>>
  /\ LoopVarsUnchanged

\* out: the lists are freed and main returns rc.
Out ==
  /\ pc = "out"
  /\ pc' = "exited"
  /\ it_root' = <<>>
  /\ ds_root' = <<>>
  /\ it' = 0
  /\ ev' = Ev("exit", NULL, "", 0, 0)
  /\ UNCHANGED <<rc, argv, have_logfile, sleep_time, break_loop, clock, seen,
                 cur, fp_open>>

NextOpts ==
  \/ CreateDefault
  \/ CreateDefaultOOM
  \/ OptT
  \/ OptA
  \/ OptAOOM
  \/ OptI
  \/ OptL
  \/ OptFD
  \/ OptH
  \/ OptBad
  \/ Startup
  \/ Out

SpecOpts == InitOpts /\ [][NextOpts]_vars

----------------------------------------------------------------------------
(* The disk list *)

DiskRec(name, idle_time, last_io, spindown, spinup, reads, writes, spun_down) ==
  [name |-> name, idle_time |-> idle_time, last_io |-> last_io,
   spindown |-> spindown, spinup |-> spinup, reads |-> reads,
   writes |-> writes, spun_down |-> spun_down]

\* get_diskstats: the index of the first record with this name, 0 for NULL.
RECURSIVE GetFrom(_, _, _)
GetFrom(root, i, name) ==
  IF i > Len(root) THEN 0
  ELSE IF root[i].name = name THEN i
  ELSE GetFrom(root, i + 1, name)

get_diskstats(root, name) == GetFrom(root, 1, name)

\* is_scsi_disk: major 8 and a minor that is a multiple of 16.
is_scsi_disk(name) ==
  /\ st_rdev(name)[1] = SCSI_DISK_MAJOR
  /\ st_rdev(name)[2] % PARTITION_SLOTS = 0

\* Lines 321-343 without the scan of lines 335-342: the idle time stays the
\* 0 of tmp.
NewDiskRec_NoScan(root, name, reads, writes, now) ==
  DiskRec(name, 0, now, 0, now, reads, writes, FALSE)

\* Lines 321-343: the record of a disk seen for the first time.  tmp holds
\* the name and the counters of the line and zeroes elsewhere.
NewDiskRec(root, name, reads, writes, now) ==
  DiskRec(name, Resolve(root, name), now, 0, now, reads, writes, FALSE)

\* Line 345: the counters of the line are those of the record.
Unchanged(ds, reads, writes) == ds.reads = reads /\ ds.writes = writes

\* Line 348 with > for >=.
IdleExpired_Strict(ds, now) == ds.idle_time # 0 /\ now - ds.last_io > ds.idle_time

\* Line 348 without the test for an idle time of 0.
IdleExpired_NoZeroTest(ds, now) == now - ds.last_io >= ds.idle_time

\* Line 348: the disk is due for a spindown.
IdleExpired(ds, now) == ds.idle_time # 0 /\ now - ds.last_io >= ds.idle_time

\* Lines 349-351 without line 351.
AfterSpindown_NoFlag(ds, now, res) == [ds EXCEPT !.spindown = now]

\* Lines 349-351: the record after spindown_disk has returned with `res`.
AfterSpindown(ds, now, res) == [ds EXCEPT !.spindown = now, !.spun_down = TRUE]

\* Line 362.
AfterSpinup(ds, now) == [ds EXCEPT !.spinup = now]

\* Lines 364-367 without line 366.
AfterActivity_KeepLastIo(ds, reads, writes, now) ==
  [ds EXCEPT !.reads = reads, !.writes = writes, !.spun_down = FALSE]

\* Lines 364-367.
AfterActivity(ds, reads, writes, now) ==
  [ds EXCEPT !.reads = reads, !.writes = writes, !.last_io = now,
             !.spun_down = FALSE]

\* Lines 517-521 with the running time counted from the last I/O.
LogEntry_FromLastIo(ds, t) ==
  Ev("log", ds.name, "", ds.spindown - ds.last_io, t - ds.spindown)

\* Lines 517-521: the entry log_spinup writes at time `t`.
LogEntry(ds, t) == Ev("log", ds.name, "", ds.spindown - ds.spinup, t - ds.spindown)

----------------------------------------------------------------------------
(* The poll loop *)

\* Command lines the poll loop is started from.
LoopConfigs ==
  { <<Opt("i", NULL, 0), Opt("a", "sda", 0), Opt("i", NULL, 1),
      Opt("l", NULL, 0)>>,
    <<Opt("i", NULL, 2)>> }

\* it_root after the options `args`, by the steps of option processing.
RECURSIVE RootAfter(_)
RootAfter(args) ==
  IF args = <<>> THEN <<DefaultRule>>
  ELSE LET root == RootAfter(SubSeq(args, 1, Len(args) - 1))
           o == args[Len(args)]
       IN CASE o.opt = "a" -> AddRule(root, o.name)
            [] o.opt = "i" -> SetIdle(root, 1, o.val)
            [] OTHER -> root

Init ==
  /\ pc = "check1"
  /\ rc = 0
  /\ argv \in LoopConfigs
  /\ it_root = RootAfter(argv)
  /\ it = 1
  /\ have_logfile = (\E i \in 1..Len(argv) : argv[i].opt = "l")
  /\ sleep_time = SleepTime(it_root)
  /\ break_loop = FALSE
  /\ clock = 0
  /\ ds_root = <<>>
  /\ seen = {}
  /\ cur = NoCur
  /\ fp_open = FALSE
  /\ ev = NoEv

CfgUnchanged == UNCHANGED <<argv, it_root, it, have_logfile, sleep_time>>

InLoop == pc \notin {"start", "opts", "out", "exited"}

\* sighandler.
Signal ==
  /\ InLoop
  /\ ~break_loop
  /\ break_loop' = TRUE
  /\ ev' = NoEv
  /\ UNCHANGED <<pc, rc, clock, ds_root, seen, cur, fp_open>>
  /\ CfgUnchanged

\* A second passes.  The clock is read at line 311 and at line 521, so it
\* is enough to let it advance right before these.
ClockTick ==
  /\ pc \in {"read", "log_spinup"}
  /\ clock < MaxTime
  /\ clock' = clock + 1
  /\ ev' = NoEv
  /\ UNCHANGED <<pc, rc, break_loop, ds_root, seen, cur, fp_open>>
  /\ CfgUnchanged

\* Lines 298-299.
Check1 ==
  /\ pc = "check1"
  /\ pc' = IF break_loop THEN "out" ELSE "fopen"
  /\ ev' = NoEv
  /\ UNCHANGED <<rc, break_loop, clock, ds_root, seen, cur, fp_open>>
  /\ CfgUnchanged

\* Lines 301-306: the statistics file is open, tmp is zeroed.
Fopen ==
  /\ pc = "fopen"
  /\ fp_open' = TRUE
  /\ pc' = "read"
  /\ ev' = Ev("fopen", NULL, "", 0, 0)
  /\ UNCHANGED <<rc, break_loop, clock, ds_root, seen, cur>>
  /\ CfgUnchanged

\* Lines 301-304 with a failed fopen treated as a tick without lines.
FopenFail_NextTick ==
  /\ pc = "fopen"
  /\ pc' = "check2"
  /\ ev' = Ev("fopen_failed", NULL, "", 0, 0)
  /\ UNCHANGED <<rc, break_loop, clock, ds_root, seen, cur, fp_open>>
  /\ CfgUnchanged

\* Lines 301-304: fopen fails, _return(2).
FopenFail ==
  /\ pc = "fopen"
  /\ rc' = 2
  /\ pc' = "out"
  /\ ev' = Ev("fopen_failed", NULL, "", 0, 0)
  /\ UNCHANGED <<break_loop, clock, ds_root, seen, cur, fp_open>>
  /\ CfgUnchanged

\* fgets returns the line of `name`.
Line(name) ==
  /\ pc = "read"
  /\ name \notin seen
  /\ seen' = IF name \in DiskNames THEN seen \cup {name} ELSE seen

\* Lines 313-314: not a whole SCSI disk.
SkipLine ==
  /\ \E name \in LineNames :
       /\ Line(name)
       /\ ~is_scsi_disk(name)
  /\ ev' = NoEv
  /\ UNCHANGED <<cur, pc, rc, break_loop, clock, ds_root, fp_open>>
  /\ CfgUnchanged

\* Lines 321-343: a new disk.
NewDisk ==
  /\ \E name \in LineNames, <<reads, writes>> \in CounterPairs :
       /\ Line(name)
       /\ ev' = Probe(name)
       /\ is_scsi_disk(name)
       /\ get_diskstats(ds_root, name) = 0
       /\ ds_root' = <<NewDiskRec(it_root, name, reads, writes, clock)>> \o ds_root
  /\ UNCHANGED <<cur, pc, rc, break_loop, clock, fp_open>>
  /\ CfgUnchanged

\* Lines 323-326: malloc fails, _return(2).
NewDiskOOM ==
  /\ \E name \in LineNames, <<reads, writes>> \in CounterPairs :
       /\ Line(name)
       /\ is_scsi_disk(name)
       /\ get_diskstats(ds_root, name) = 0
  /\ rc' = 2
  /\ pc' = "out"
  /\ ev' = Ev("oom", NULL, "", 0, 0)
  /\ UNCHANGED <<cur, break_loop, clock, ds_root, fp_open>>
  /\ CfgUnchanged

\* Lines 345-353 without a spindown: the disk is spun down already, or it
\* has no idle time, or it has not been idle for long enough.
StillIdle ==
  /\ \E name \in LineNames, <<reads, writes>> \in CounterPairs :
       /\ Line(name)
       /\ ev' = Probe(name)
       /\ is_scsi_disk(name)
       /\ LET i == get_diskstats(ds_root, name) IN
            /\ i # 0
            /\ Unchanged(ds_root[i], reads, writes)
            /\ ds_root[i].spun_down \/ ~IdleExpired(ds_root[i], clock)
  /\ UNCHANGED <<cur, pc, rc, break_loop, clock, ds_root, fp_open>>
  /\ CfgUnchanged

\* Lines 345-353 with a failed command ending the loop with exit code 2.
Spindown_FatalOnFailure ==
  /\ \E name \in LineNames, <<reads, writes>> \in CounterPairs, res \in SpindownResults :
       /\ Line(name)
       /\ is_scsi_disk(name)
       /\ LET i == get_diskstats(ds_root, name) IN
            /\ i # 0
            /\ Unchanged(ds_root[i], reads, writes)
            /\ ~ds_root[i].spun_down
            /\ IdleExpired(ds_root[i], clock)
            /\ ds_root' = [ds_root EXCEPT ![i] = AfterSpindown(@, clock, res)]
            /\ ev' = Ev("spindown", ds_root[i].name, res, 0, 0)
       /\ pc' = IF res = "ok" THEN pc ELSE "out"
       /\ rc' = IF res = "ok" THEN rc ELSE 2
  /\ UNCHANGED <<cur, break_loop, clock, fp_open>>
  /\ CfgUnchanged

\* Lines 345-353 with the spindown.
Spindown ==
  /\ \E name \in LineNames, <<reads, writes>> \in CounterPairs, res \in SpindownResults :
       /\ Line(name)
       /\ is_scsi_disk(name)
       /\ LET i == get_diskstats(ds_root, name) IN
            /\ i # 0
            /\ Unchanged(ds_root[i], reads, writes)
            /\ ~ds_root[i].spun_down
            /\ IdleExpired(ds_root[i], clock)
            /\ ds_root' = [ds_root EXCEPT ![i] = AfterSpindown(@, clock, res)]
            /\ ev' = Ev("spindown", ds_root[i].name, res, 0, 0)
  /\ UNCHANGED <<cur, pc, rc, break_loop, clock, fp_open>>
  /\ CfgUnchanged

\* Lines 355-368 for a disk that was running.
Activity ==
  /\ \E name \in LineNames, <<reads, writes>> \in CounterPairs :
       /\ Line(name)
       /\ ev' = Probe(name)
       /\ is_scsi_disk(name)
       /\ LET i == get_diskstats(ds_root, name) IN
            /\ i # 0
            /\ ~Unchanged(ds_root[i], reads, writes)
            /\ ~ds_root[i].spun_down
            /\ ds_root' = [ds_root EXCEPT ![i] = AfterActivity(@, reads, writes, clock)]
  /\ UNCHANGED <<cur, pc, rc, break_loop, clock, fp_open>>
  /\ CfgUnchanged

\* Lines 355-368 for a disk that was spun down, without a log file.
SpinupNoLog ==
  /\ ~have_logfile
  /\ \E name \in LineNames, <<reads, writes>> \in CounterPairs :
       /\ Line(name)
       /\ ev' = Probe(name)
       /\ is_scsi_disk(name)
       /\ LET i == get_diskstats(ds_root, name) IN
            /\ i # 0
            /\ ~Unchanged(ds_root[i], reads, writes)
            /\ ds_root[i].spun_down
            /\ ds_root' = [ds_root EXCEPT ![i] =
                 AfterActivity(AfterSpinup(@, clock), reads, writes, clock)]
  /\ UNCHANGED <<cur, pc, rc, break_loop, clock, fp_open>>
  /\ CfgUnchanged

\* Lines 355-360 for a disk that was spun down, with a log file: main
\* calls log_spinup.
SpinupLog ==
  /\ have_logfile
  /\ \E name \in LineNames, <<reads, writes>> \in CounterPairs :
       /\ Line(name)
       /\ ev' = Probe(name)
       /\ is_scsi_disk(name)
       /\ LET i == get_diskstats(ds_root, name) IN
            /\ i # 0
            /\ ~Unchanged(ds_root[i], reads, writes)
            /\ ds_root[i].spun_down
       /\ cur' = [name |-> name, reads |-> reads, writes |-> writes,
                  now |-> clock]
  /\ pc' = "log_spinup"
  /\ UNCHANGED <<rc, break_loop, clock, ds_root, fp_open>>
  /\ CfgUnchanged

\* log_spinup, lines 501-529: the entry is written with the time of line
\* 521, the log is closed, and the flag is read.
LogWrite ==
  /\ pc = "log_spinup"
  /\ ev' = LogEntry(ds_root[get_diskstats(ds_root, cur.name)], clock)
  /\ pc' = IF break_loop THEN "update" ELSE "log_sleep"
  /\ UNCHANGED <<rc, break_loop, clock, ds_root, seen, cur, fp_open>>
  /\ CfgUnchanged

\* log_spinup, line 501, with a log that cannot be opened ending the loop.
LogOpenFail_Fatal ==
  /\ pc = "log_spinup"
  /\ pc' = "out"
  /\ rc' = 2
  /\ ev' = NoEv
  /\ UNCHANGED <<break_loop, clock, ds_root, seen, cur, fp_open>>
  /\ CfgUnchanged

\* log_spinup, line 501: the log cannot be opened.
LogOpenFail ==
  /\ pc = "log_spinup"
  /\ pc' = "update"
  /\ ev' = NoEv
  /\ UNCHANGED <<rc, break_loop, clock, ds_root, seen, cur, fp_open>>
  /\ CfgUnchanged

\* log_spinup, lines 530-532: sleep(1) has run its second and the flag is
\* still clear: sync().
LogSync ==
  /\ pc = "log_sleep"
  /\ ~break_loop
  /\ clock < MaxTime
  /\ clock' = clock + 1
  /\ pc' = "update"
  /\ ev' = Ev("sync", NULL, "", 0, 0)
  /\ UNCHANGED <<rc, break_loop, ds_root, seen, cur, fp_open>>
  /\ CfgUnchanged

\* log_spinup, lines 530-532 without the second test of the flag: sync()
\* after a sleep(1) that the signal has cut short.
LogNoSync_NoSecondTest ==
  /\ pc = "log_sleep"
  /\ break_loop
  /\ pc' = "update"
  /\ ev' = Ev("sync", NULL, "", 0, 0)
  /\ UNCHANGED <<rc, break_loop, clock, ds_root, seen, cur, fp_open>>
  /\ CfgUnchanged

\* log_spinup, lines 530-531: sleep(1) returns with the flag set.
LogNoSync ==
  /\ pc = "log_sleep"
  /\ break_loop
  /\ pc' = "update"
  /\ ev' = NoEv
  /\ UNCHANGED <<rc, break_loop, clock, ds_root, seen, cur, fp_open>>
  /\ CfgUnchanged

\* Lines 362-367 after log_spinup has returned.
Update ==
  /\ pc = "update"
  /\ LET i == get_diskstats(ds_root, cur.name) IN
       ds_root' = [ds_root EXCEPT ![i] =
         AfterActivity(AfterSpinup(@, cur.now), cur.reads, cur.writes, cur.now)]
  /\ cur' = NoCur
  /\ pc' = "read"
  /\ ev' = NoEv
  /\ UNCHANGED <<rc, break_loop, clock, seen, fp_open>>
  /\ CfgUnchanged

\* fgets returns NULL; line 372: fclose.
Fclose ==
  /\ pc = "read"
  /\ fp_open' = FALSE
  /\ seen' = {}
  /\ pc' = "check2"
  /\ ev' = Ev("fclose", NULL, "", 0, 0)
  /\ UNCHANGED <<rc, break_loop, clock, ds_root, cur>>
  /\ CfgUnchanged

\* Lines 374-375.
Check2 ==
  /\ pc = "check2"
  /\ pc' = IF break_loop THEN "out" ELSE "sleep"
  /\ ev' = NoEv
  /\ UNCHANGED <<rc, break_loop, clock, ds_root, seen, cur, fp_open>>
  /\ CfgUnchanged

\* Line 376: sleep(sleep_time) has run its time.  sleep() takes an unsigned
\* int: a negative sleep_time is more than 2^31 seconds and never runs out.
SleepElapsed ==
  /\ pc = "sleep"
  /\ ~break_loop
  /\ sleep_time >= 0
  /\ clock + sleep_time <= MaxTime
  /\ clock' = clock + sleep_time
  /\ pc' = "check1"
  /\ ev' = NoEv
  /\ UNCHANGED <<rc, break_loop, ds_root, seen, cur, fp_open>>
  /\ CfgUnchanged

\* Line 376: sleep(sleep_time) returns with the flag set.
SleepInterrupted ==
  /\ pc = "sleep"
  /\ break_loop
  /\ pc' = "check1"
  /\ ev' = NoEv
  /\ UNCHANGED <<rc, break_loop, clock, ds_root, seen, cur, fp_open>>
  /\ CfgUnchanged

Next ==
  \/ Signal
  \/ ClockTick
  \/ Check1
  \/ Fopen
  \/ FopenFail
  \/ SkipLine
  \/ NewDisk
  \/ NewDiskOOM
  \/ StillIdle
  \/ Spindown
  \/ Activity
  \/ SpinupNoLog
  \/ SpinupLog
  \/ LogWrite
  \/ LogOpenFail
  \/ LogSync
  \/ LogNoSync
  \/ Update
  \/ Fclose
  \/ Check2
  \/ SleepElapsed
  \/ SleepInterrupted
  \/ Out

Spec == Init /\ [][Next]_vars

----------------------------------------------------------------------------
(* The poll loop with evenly spaced ticks *)

\* Command lines SpecTicks is started from.
TickConfigs ==
  { <<Opt("i", NULL, 2)>>,
    <<Opt("a", "sda", 0), Opt("i", NULL, 25)>>,
    <<Opt("i", NULL, -5)>> }

InitTicks ==
  /\ pc = "check1"
  /\ rc = 0
  /\ argv \in TickConfigs
  /\ it_root = RootAfter(argv)
  /\ it = 1
  /\ have_logfile = FALSE
  /\ sleep_time = SleepTime(it_root)
  /\ break_loop = FALSE
  /\ clock = 0
  /\ ds_root = <<>>
  /\ seen = {}
  /\ cur = NoCur
  /\ fp_open = FALSE
  /\ ev = NoEv

\* fgets returns NULL after the lines of all disks; line 372: fclose.
TickFclose ==
  /\ DiskNames \subseteq seen
  /\ Fclose

\* Line 376: sleep(sleep_time) has run its time, and the time from one
\* tick to the next is the sleep time.
TickSleep ==
  /\ pc = "sleep"
  /\ ~break_loop
  /\ sleep_time >= 0
  /\ clock + sleep_time <= MaxTickTime
  /\ clock' = clock + sleep_time
  /\ pc' = "check1"
  /\ ev' = NoEv
  /\ UNCHANGED <<rc, break_loop, ds_root, seen, cur, fp_open>>
  /\ CfgUnchanged

\* The poll loop when every snapshot can be read, holds a line for every
\* disk with the counters of the snapshot before, and is read within the
\* second it is opened in.
NextTicks ==
  \/ Signal
  \/ Check1
  \/ Fopen
  \/ SkipLine
  \/ NewDisk
  \/ StillIdle
  \/ Spindown
  \/ TickFclose
  \/ Check2
  \/ TickSleep
  \/ SleepInterrupted
  \/ Out

SpecTicks == InitTicks /\ [][NextTicks]_vars

----------------------------------------------------------------------------
(* The idle-time list as a function of the command line *)

Min(S) == CHOOSE x \in S : \A y \in S : x <= y

Max(S) == CHOOSE x \in S : \A y \in S : x >= y

\* The list is built and not yet freed.
TableBuilt == pc \in {"opts", "check1"}

\* The places of the -a options on the command line so far.
Selects == {j \in 1..Len(argv) : argv[j].opt = "a"}

\* The -i options that follow place j (0: the start of the command line)
\* with no -a in between.
TimeoutsAfter(j) ==
  {k \in (j + 1)..Len(argv) :
     /\ argv[k].opt = "i"
     /\ \A m \in (j + 1)..k : argv[m].opt # "a"}

\* The timeout of the rule made at place j (0: the default rule).
ExpectedIdle(j) ==
  IF TimeoutsAfter(j) = {} THEN 600 ELSE argv[Max(TimeoutsAfter(j))].val

QueryNames == OptNames \cup {"sdc"}

\* C6: the list holds exactly one default rule, in the last place, and for
\* every name resolve gives the timeout of the first rule of that name, or
\* the default rule's timeout when no rule has the name.
C6_ResolveFirstMatch ==
  TableBuilt =>
    /\ Cardinality({i \in DOMAIN it_root : it_root[i].name = NULL}) = 1
    /\ it_root[Len(it_root)].name = NULL
    /\ \A n \in QueryNames :
         LET M == {i \in DOMAIN it_root : it_root[i].name = n} IN
           Resolve(it_root, n) =
             IF M = {} THEN it_root[Len(it_root)].idle_time
             ELSE it_root[Min(M)].idle_time

\* C6: two named rules before a default rule with a timeout of its own;
\* one name resolves to its rule, another to the default.
C6_Witness ==
  /\ pc = "check1"
  /\ Len(it_root) = 3
  /\ it_root[3].idle_time = 25
  /\ Resolve(it_root, it_root[2].name) = 2
  /\ Resolve(it_root, "sdc") = 25

\* C7: a name selected more than once resolves to the timeout of the rule
\* of its last -a.
C7_LaterRuleWins ==
  TableBuilt =>
    \A n \in OptNames :
      LET A == {j \in Selects : argv[j].name = n} IN
        A # {} => Resolve(it_root, n) = ExpectedIdle(Max(A))

\* C7: sda was selected twice, with different timeouts, and resolves to
\* the second.
C7_Witness ==
  /\ pc = "check1"
  /\ \E j1, j2 \in Selects :
       /\ j1 < j2
       /\ argv[j1].name = "sda" /\ argv[j2].name = "sda"
       /\ ExpectedIdle(j1) # ExpectedIdle(j2)
       /\ ExpectedIdle(j1) # 600
       /\ Resolve(it_root, "sda") = ExpectedIdle(j2)

\* C8: every rule has the timeout of the last -i that came while it was
\* the open rule, and 600 if none came: the default rule is open until the
\* first -a, the rule of an -a until the next -a.
C8_SetTimeoutOnlyOpenRule ==
  TableBuilt =>
    /\ Len(it_root) = Cardinality(Selects) + 1
    /\ it_root[Len(it_root)] = Rule(NULL, ExpectedIdle(0))
    /\ \A j \in Selects :
         it_root[Cardinality({m \in Selects : m >= j})] =
           Rule(argv[j].name, ExpectedIdle(j))

\* C8: a default rule with a timeout of its own, a named rule left at 600
\* and a named rule with a timeout of its own.
C8_Witness ==
  /\ pc = "check1"
  /\ Len(it_root) = 3
  /\ it_root[3].idle_time = 25
  /\ it_root[2].idle_time = 600
  /\ it_root[1].idle_time = 2

\* C9: the sleep time is max(1, m / 10) for the smallest nonzero timeout m
\* of the rules, and at least 1 for every command line.
C9_PollInterval ==
  pc = "check1" =>
    LET NZ == {it_root[i].idle_time : i \in DOMAIN it_root} \ {0} IN
      /\ sleep_time >= 1
      /\ NZ # {} => sleep_time = Max({1, Min(NZ) \div 10})

----------------------------------------------------------------------------
(* Reading the state *)

Known(d) == get_diskstats(ds_root, d) # 0

Rec(d) == ds_root[get_diskstats(ds_root, d)]

RecNext(d) == ds_root'[get_diskstats(ds_root', d)]

\* The step is the one that takes the line of disk d from the file.
LineStep(d) == pc = "read" /\ d \notin seen /\ d \in seen'

\* The step sends the spindown command to disk d.
SpindownStep(d) == LineStep(d) /\ ev'.type = "spindown" /\ ev'.name = d

\* The record of d holds the same counters before and after the step.
SameCounters(d) ==
  /\ RecNext(d).reads = Rec(d).reads
  /\ RecNext(d).writes = Rec(d).writes

----------------------------------------------------------------------------
(* The spindown decision *)

\* C1: at most one spindown command per idle episode.  A spindown command
\* goes only to a disk whose spun_down is clear, and sets it; and spun_down,
\* once set, stays set while the loop runs until a step stores counters in
\* the record that differ from the ones it held.
C1_OneSpindownPerEpisode ==
  [][\A d \in DiskNames :
       /\ SpindownStep(d) =>
            Known(d) /\ ~Rec(d).spun_down /\ RecNext(d).spun_down
       /\ (Known(d) /\ Rec(d).spun_down /\ pc' # "exited") =>
            (RecNext(d).spun_down \/ ~SameCounters(d))]_vars

\* C1: the command has just gone to a disk that had been spun down and spun
\* up before.
C1_Witness ==
  /\ ev.type = "spindown"
  /\ Known(ev.name)
  /\ Rec(ev.name).spun_down
  /\ Rec(ev.name).spinup > 0
  /\ Rec(ev.name).spindown > Rec(ev.name).spinup

\* C2: a disk in the list with a nonzero idle time T, running, whose line
\* shows the counters of its record, gets the spindown command at exactly
\* the ticks where now - last_io >= T; the step then sets spindown = now and
\* spun_down.  The command goes to no disk in another situation.
C2_SpindownAtFirstExpiry ==
  [][\A d \in DiskNames :
       /\ (/\ LineStep(d) /\ Known(d) /\ pc' = "read" /\ SameCounters(d)
           /\ ~Rec(d).spun_down /\ Rec(d).idle_time # 0) =>
            IF clock - Rec(d).last_io >= Rec(d).idle_time
            THEN /\ SpindownStep(d)
                 /\ RecNext(d).spindown = clock
                 /\ RecNext(d).spun_down
                 /\ RecNext(d).last_io = Rec(d).last_io
            ELSE /\ ~SpindownStep(d)
                 /\ ds_root' = ds_root
       /\ SpindownStep(d) =>
            /\ Known(d) /\ SameCounters(d)
            /\ ~Rec(d).spun_down /\ Rec(d).idle_time # 0
            /\ clock - Rec(d).last_io >= Rec(d).idle_time]_vars

\* C2: the command has gone to a disk that was idle for exactly its idle
\* time.
C2_Witness ==
  /\ ev.type = "spindown"
  /\ Known(ev.name)
  /\ Rec(ev.name).spun_down
  /\ Rec(ev.name).idle_time = 2
  /\ Rec(ev.name).spindown - Rec(ev.name).last_io = 2

\* C3: a disk whose spindown command failed (open or ioctl) is not marked
\* as spun down.
C3_FailedSpindownNotMarked ==
  (ev.type = "spindown" /\ ev.res \in {"open_failed", "ioctl_failed"}
     /\ Known(ev.name)) => ~Rec(ev.name).spun_down

\* C4: a disk whose idle time resolves to 0 is never sent the spindown
\* command and is never marked as spun down.
C4_ZeroNeverSpunDown ==
  \A d \in DiskNames :
    (Known(d) /\ Resolve(it_root, d) = 0) =>
      /\ ~Rec(d).spun_down
      /\ ~(ev.type = "spindown" /\ ev.name = d)

\* C4: the line of a disk with idle time 0 has just been looked at, with
\* the counters it had two seconds or more ago.
C4_Witness ==
  /\ ev.type = "probe"
  /\ Known(ev.name)
  /\ Resolve(it_root, ev.name) = 0
  /\ clock - Rec(ev.name).last_io >= 2
  /\ ~Rec(ev.name).spun_down

----------------------------------------------------------------------------
(* The spin-up log *)

\* C5 as stated: with a log file, the tick that sees changed counters on a
\* spun-down disk writes one entry, with running = spindown - spinup and
\* stopped = now - spindown for the now of that tick.
C5_LogEntryAtTickTime ==
  [][(pc = "log_spinup" /\ pc' # "log_spinup") =>
       /\ ev'.type = "log"
       /\ ev'.name = cur.name
       /\ ev'.running = Rec(cur.name).spindown - Rec(cur.name).spinup
       /\ ev'.stopped = cur.now - Rec(cur.name).spindown]_vars

\* C5 as amended: log_spinup is called exactly for a line with changed
\* counters of a spun-down disk when there is a log file; it writes at most
\* one entry, and none only when the log cannot be opened; the entry has
\* running = spindown - spinup of the episode that ends and stopped =
\* t - spindown for the time t log_spinup reads, which is not before the
\* now of the tick; the tick then sets spinup = now, last_io = now, stores
\* the counters of the line and clears spun_down.  Without a log file the
\* same tick makes the same changes; a disk that was running gets no entry.
C5_LogEntryAtLogTime ==
  [][/\ (pc # "log_spinup" /\ pc' = "log_spinup") =>
          /\ have_logfile
          /\ LineStep(cur'.name)
          /\ Known(cur'.name)
          /\ Rec(cur'.name).spun_down
          /\ ~Unchanged(Rec(cur'.name), cur'.reads, cur'.writes)
          /\ cur'.now = clock
          /\ ds_root' = ds_root
     /\ (ev'.type = "log") =>
          /\ pc = "log_spinup" /\ pc' # "log_spinup"
          /\ ev'.name = cur.name
          /\ ev'.running = Rec(cur.name).spindown - Rec(cur.name).spinup
          /\ ev'.stopped = clock - Rec(cur.name).spindown
          /\ clock >= cur.now
          /\ ds_root' = ds_root
     /\ (pc = "log_spinup" /\ pc' # "log_spinup" /\ ev'.type # "log") =>
          /\ pc' = "update"
          /\ ds_root' = ds_root
     /\ (pc = "update" /\ pc' # "update") =>
          RecNext(cur.name) =
            [Rec(cur.name) EXCEPT !.spinup = cur.now, !.last_io = cur.now,
               !.reads = cur.reads, !.writes = cur.writes,
               !.spun_down = FALSE]
     /\ \A d \in DiskNames :
          (LineStep(d) /\ Known(d) /\ Rec(d).spun_down /\ ~have_logfile
             /\ ~SameCounters(d)) =>
            /\ RecNext(d).spinup = clock /\ RecNext(d).last_io = clock
            /\ ~RecNext(d).spun_down
            /\ RecNext(d).spindown = Rec(d).spindown]_vars

\* C5: an entry has been written a second after the now of its tick.
C5_Witness ==
  /\ ev.type = "log"
  /\ ev.running > 0
  /\ ev.stopped > cur.now - Rec(cur.name).spindown

----------------------------------------------------------------------------
(* Cancellation *)

\* C10: the loop is left on cancellation at the two checkpoints only; once
\* the flag is set while the statistics file is open, the loop is not left
\* before the file is closed, and the file is not opened again.
C10_ReadCompletesAfterSignal ==
  [][/\ (break_loop /\ fp_open) => pc' # "out"
     /\ (break_loop /\ pc \notin {"fopen", "out", "exited"}) => pc' # "fopen"
     /\ (pc # "out" /\ pc' = "out" /\ rc' = 0) =>
          (break_loop /\ pc \in {"check1", "check2"} /\ ~fp_open)]_vars

----------------------------------------------------------------------------
(* Failures *)

\* C11: every failed allocation (the default rule, a rule of -a, the record
\* of a new disk) ends the process with exit code 2.
C11_AllocationFailureExits2 ==
  ev.type = "oom" => (rc = 2 /\ pc \in {"out", "exited"})

\* C12: a failed fopen of the statistics file, at the first tick or at a
\* later one, sets the exit code to 2 and leaves the loop with the disk list
\* as it was; from there the only step is the exit with that code: no line
\* is read, no disk is looked at, no spindown command is sent.
C12_StatOpenFailureIsFatal ==
  [][/\ (pc = "fopen" /\ pc' \notin {"fopen", "read"}) =>
          /\ ev'.type = "fopen_failed"
          /\ pc' = "out" /\ rc' = 2
          /\ ds_root' = ds_root /\ fp_open' = fp_open
     /\ ev'.type = "fopen_failed" => pc = "fopen"
     /\ pc = "out" =>
          /\ pc' = "exited" /\ rc' = rc
          /\ ev'.type = "exit"
          /\ fp_open' = fp_open /\ clock' = clock
     /\ pc # "exited"]_vars

\* C12: fopen has failed at a later tick, with both disks in the list and
\* one of them spun down.
C12_Witness ==
  /\ ev.type = "fopen_failed"
  /\ pc = "out" /\ rc = 2
  /\ Len(ds_root) = 2
  /\ \E i \in 1..Len(ds_root) : ds_root[i].spun_down

\* C13: a spindown command that fails leaves main where a successful one
\* leaves it: in the read loop of the same tick, with the exit code as it
\* was, the file open, and only the disk of the line taken from the lines
\* to come.  While the loop runs, the record of a disk changes only in the
\* steps that process that disk's own line, whatever these steps do.
C13_FailedSpindownIsLocal ==
  [][/\ (ev'.type = "spindown" /\ ev'.res # "ok") =>
          /\ pc = "read" /\ pc' = "read"
          /\ rc' = rc
          /\ fp_open'
          /\ seen' = seen \cup {ev'.name}
     /\ \A e \in DiskNames :
          (Known(e) /\ pc' # "exited") =>
            /\ get_diskstats(ds_root', e) # 0
            /\ RecNext(e) # Rec(e) =>
                 (LineStep(e) \/ (pc = "update" /\ cur.name = e))]_vars

\* C13: the command to one disk has failed while the line of the other
\* disk, which is in the list, is still to come in this tick.
C13_Witness ==
  /\ ev.type = "spindown"
  /\ ev.res \in {"open_failed", "ioctl_failed", "bad_status"}
  /\ pc = "read"
  /\ Len(ds_root) = 2
  /\ seen = {ev.name}

\* C14: the tick that sees changed counters on a spun-down disk sets
\* spinup = now and last_io = now for the now of the tick, stores the
\* counters of the line and clears spun_down, and changes nothing else in
\* the record: without a log file in the same step, with a log file in the
\* step after log_spinup has returned, whatever log_spinup did.  Without a
\* log file no entry is written, log_spinup is not called and there is no
\* sync.  When log_spinup writes no entry it returns at once: exit code,
\* clock and disk list are as they were, there is no sync, and main goes on
\* with the update of the record.
C14_LoggingNotLoadBearing ==
  [][/\ (pc = "update" /\ pc' # "update") =>
          /\ pc' = "read"
          /\ RecNext(cur.name) =
               [Rec(cur.name) EXCEPT !.spinup = cur.now, !.last_io = cur.now,
                  !.reads = cur.reads, !.writes = cur.writes,
                  !.spun_down = FALSE]
     /\ \A d \in DiskNames :
          (LineStep(d) /\ Known(d) /\ Rec(d).spun_down /\ ~have_logfile
             /\ ~SameCounters(d)) =>
            /\ pc' = "read"
            /\ RecNext(d) =
                 [Rec(d) EXCEPT !.spinup = clock, !.last_io = clock,
                    !.reads = RecNext(d).reads, !.writes = RecNext(d).writes,
                    !.spun_down = FALSE]
     /\ ~have_logfile =>
          /\ ev'.type \notin {"log", "sync"}
          /\ pc' \notin {"log_spinup", "log_sleep", "update"}
     /\ (pc = "log_spinup" /\ pc' # "log_spinup" /\ ev'.type # "log") =>
          /\ pc' = "update"
          /\ ev'.type = "none"
          /\ rc' = rc /\ clock' = clock /\ ds_root' = ds_root
          /\ break_loop' = break_loop /\ fp_open' = fp_open]_vars

\* C14: log_spinup has returned without an entry, no signal has come, and
\* main is about to update the record of the disk that has spun up.
C14_Witness ==
  /\ pc = "update"
  /\ ev.type = "none"
  /\ ~break_loop
  /\ have_logfile
  /\ Rec(cur.name).spun_down
  /\ cur.now > Rec(cur.name).spindown

----------------------------------------------------------------------------
(* The disk list over time *)

\* The names of the records in a disk list.
Names(root) == {root[i].name : i \in 1..Len(root)}

\* C15: while the loop runs, no two records of the disk list have the same
\* name, no record leaves the list, and a step adds at most one record: the
\* record of the disk whose line the step reads, when that disk has no
\* record yet; such a line always adds the record unless malloc fails,
\* which ends the loop.  The idle time of a new record is the one the rule
\* list resolves its name to, and no step changes the idle time of a record.
C15_RecordsCreatedOnce ==
  [][pc' # "exited" =>
       /\ \A i, j \in 1..Len(ds_root') :
            ds_root'[i].name = ds_root'[j].name => i = j
       /\ Names(ds_root) \subseteq Names(ds_root')
       /\ Len(ds_root') <= Len(ds_root) + 1
       /\ \A d \in DiskNames :
            /\ Known(d) => RecNext(d).idle_time = Rec(d).idle_time
            /\ (~Known(d) /\ d \in Names(ds_root')) =>
                 /\ LineStep(d)
                 /\ RecNext(d).idle_time = Resolve(it_root, d)
            /\ (LineStep(d) /\ ~Known(d)) =>
                 \/ d \in Names(ds_root')
                 \/ pc' = "out" /\ rc' = 2 /\ ev'.type = "oom"
       /\ Names(ds_root') \subseteq DiskNames]_vars

\* C15: a disk has got its record at a later tick than the other disk,
\* which has been spun down since, and the two have different idle times.
C15_Witness ==
  /\ Len(ds_root) = 2
  /\ ev.type = "probe" /\ ev.name = ds_root[1].name
  /\ ds_root[1].spinup = clock /\ clock > 0
  /\ ds_root[1].spindown = 0
  /\ ds_root[2].spun_down
  /\ ds_root[1].idle_time # ds_root[2].idle_time

----------------------------------------------------------------------------
(* The pause and the sync of log_spinup *)

\* C16: log_spinup pauses only right after it has written an entry, and
\* only when the flag is clear at that point; with the flag set it returns
\* without pause and without sync.  The pause ends in one of two ways: the
\* flag is still clear, a second has passed and sync() is called; or the
\* flag has been set in the meantime and log_spinup returns without sync().
\* sync() is called nowhere else.
C16_SyncSkippedOnCancel ==
  [][/\ ev'.type = "log" =>
          /\ pc = "log_spinup"
          /\ clock' = clock
          /\ pc' = IF break_loop THEN "update" ELSE "log_sleep"
     /\ (pc # "log_sleep" /\ pc' = "log_sleep") =>
          (ev'.type = "log" /\ ~break_loop)
     /\ (pc = "log_sleep" /\ pc' # "log_sleep") =>
          /\ pc' = "update"
          /\ break_loop' = break_loop
          /\ IF break_loop
             THEN ev'.type # "sync" /\ clock' = clock
             ELSE ev'.type = "sync" /\ clock' = clock + 1
     /\ ev'.type = "sync" =>
          (pc = "log_sleep" /\ ~break_loop /\ ~break_loop')]_vars

\* C16: the signal has come during the pause after an entry.
C16_Witness ==
  /\ pc = "log_sleep"
  /\ break_loop
  /\ ev.type = "none"
  /\ Rec(cur.name).spun_down

----------------------------------------------------------------------------
(* The option -t *)

\* getopt has returned a -t.
SeenT == \E i \in 1..Len(argv) : argv[i].opt = "t"

\* C17: when getopt returns -t, that step calls spindown_disk once, for the
\* name given, sets the exit code to 0 and jumps to out; spindown_disk is
\* not called otherwise during option processing.  From then on the only
\* step is the exit: getopt is not called again, no rule is changed, the
\* loop is not entered, the statistics file is not opened, no record is
\* made, and the process ends with exit code 0.
C17_OneShotSpindown ==
  [][/\ (Len(argv') > Len(argv) /\ argv'[Len(argv')].opt = "t") =>
          /\ ev'.type = "spindown"
          /\ ev'.name = argv'[Len(argv')].name
          /\ rc' = 0 /\ pc' = "out"
          /\ it_root' = it_root /\ have_logfile' = have_logfile
     /\ ev'.type = "spindown" =>
          (~SeenT /\ Len(argv') > Len(argv) /\ argv'[Len(argv')].opt = "t")
     /\ SeenT =>
          /\ pc = "out" /\ pc' = "exited"
          /\ argv' = argv
          /\ rc = 0 /\ rc' = 0
          /\ ev'.type = "exit"
          /\ ~fp_open' /\ ds_root' = <<>> /\ clock' = clock]_vars

\* C17: the process has ended after a -t that came behind -a and -i.
C17_Witness ==
  /\ pc = "exited"
  /\ rc = 0
  /\ Len(argv) = 3
  /\ argv[1].opt = "a" /\ argv[2].opt = "i" /\ argv[3].opt = "t"
  /\ ev.type = "exit"

----------------------------------------------------------------------------
(* Detection latency *)

\* C18: with evenly spaced ticks and constant counters, a disk with a
\* nonzero idle time T gets the spindown command at a tick with
\* T <= now - last_io < T + sleep_time, and at the first such tick; and
\* sleep_time <= max(1, T / 10) for every disk in the list with a nonzero
\* idle time T.
C18_DetectionLatency ==
  [][\A d \in DiskNames :
       /\ SpindownStep(d) =>
            /\ Rec(d).idle_time <= clock - Rec(d).last_io
            /\ clock - Rec(d).last_io < Rec(d).idle_time + sleep_time
       /\ (/\ LineStep(d) /\ Known(d) /\ ~Rec(d).spun_down
           /\ Rec(d).idle_time # 0
           /\ clock - Rec(d).last_io >= Rec(d).idle_time) => SpindownStep(d)
       /\ (Known(d) /\ Rec(d).idle_time # 0) =>
            sleep_time <= Max({1, CDiv(Rec(d).idle_time, 10)})]_vars

----------------------------------------------------------------------------
(* The order of the timestamps *)

\* C19: every record of the disk list has spinup <= last_io, and a record
\* with spun_down set has an idle time other than 0 and
\* spindown - last_io >= idle_time; the running time of every entry
\* log_spinup writes is at least the idle time of the disk and at least 0.
C19_TimestampOrder ==
  /\ \A i \in 1..Len(ds_root) :
       /\ ds_root[i].spinup <= ds_root[i].last_io
       /\ ds_root[i].spun_down =>
            /\ ds_root[i].idle_time # 0
            /\ ds_root[i].spindown - ds_root[i].last_io >= ds_root[i].idle_time
  /\ ev.type = "log" =>
       /\ Known(ev.name)
       /\ ev.running = Rec(ev.name).spindown - Rec(ev.name).spinup
       /\ ev.running >= Rec(ev.name).idle_time
       /\ ev.running >= 0

\* C19: an entry has been written for a disk that had been spun down, spun
\* up and spun down again, the last time as soon as its idle time was over.
C19_Witness ==
  /\ ev.type = "log"
  /\ Rec(ev.name).spun_down
  /\ Rec(ev.name).spinup > 0
  /\ ev.running = Rec(ev.name).idle_time

----------------------------------------------------------------------------
(* The statistics file handle *)

\* C20: once the loop is left, by a signal at either test of the flag, by a
\* failed fopen or by a failed malloc of a disk record, the handle of the
\* statistics file is closed.
C20_NoHandleLeftOpen ==
  pc \in {"out", "exited"} => ~fp_open

====
